---- MODULE Spec2Model ----
(***************************************************************************)
(* A model of the MapReduce control plane (Master, TaskGroup) and of the   *)
(* naming contest (NameServer) of batheaded/map-reduce.                    *)
(*                                                                         *)
(* Python values are modelled uniformly: a hashable value (task id, key,   *)
(* intermediate value, reduce output) is a tuple of integers, an atom a    *)
(* being <<a>> and a pair (k, v) being <<k, v>>.  A dict is the sequence   *)
(* of its <<key, value>> entries in insertion order (Python dicts are      *)
(* ordered, popitem() is LIFO).  Dict objects live in a heap so that two   *)
(* TaskGroups may hold the same dict object.                               *)
(***************************************************************************)
EXTENDS Integers, Sequences, FiniteSets, TLC

\* ------------------------------------------------------------------ bounds
MaxChunks == 2
NumFollowers == 2
NumKeys == 2
MaxCrashes == 1
MaxFollowerCrashes == 1
MaxResubscribes == 1
MaxRepeats == 1
NumNodes == 3
MaxNSFailures == 1
NumNames == 1
NumAddrs == 2
MaxRecords == 2
ITEMS_PER_CHUNK == 16

Followers == 1..NumFollowers
ChunkIds == 1..MaxChunks
Nodes == 1..NumNodes
\* Intermediate keys (words); kept apart from the chunk ids.
Words == {10 + k : k \in 1..NumKeys}

\* ------------------------------------------------------------ dict objects
EmptyDict == <<>>

Has(d, k) == \E i \in 1..Len(d) : d[i][1] = k

IndexOf(d, k) == CHOOSE i \in 1..Len(d) : d[i][1] = k

Get(d, k) == d[IndexOf(d, k)][2]

DictKeys(d) == {d[i][1] : i \in 1..Len(d)}

\* dict.pop(k): the dict without the entry of k.
DictPop(d, k) ==
    LET j == IndexOf(d, k)
    IN  [i \in 1..(Len(d) - 1) |-> IF i < j THEN d[i] ELSE d[i + 1]]

\* d[k] = v: overwrite in place, or insert at the end.
DictSet(d, k, v) ==
    IF Has(d, k) THEN [d EXCEPT ![IndexOf(d, k)] = <<k, v>>]
    ELSE Append(d, <<k, v>>)

\* d.update(e)
RECURSIVE DictUpdate(_, _)
DictUpdate(d, e) ==
    IF e = <<>> THEN d
    ELSE DictUpdate(DictSet(d, Head(e)[1], Head(e)[2]), Tail(e))

\* ----------------------------------------------------------- user functions
\* The error sentinel a follower reports when the user function raised.
ErrorSentinel == <<>>

\* The job's map function: a chunk holds one word; the pair (word, chunk id)
\* is emitted.  On any other task the function raises.
MapFn(task_id, task) ==
    IF Len(task) = 1 /\ task[1] \in {<<w>> : w \in Words} THEN <<task[1], task_id>>
    ELSE ErrorSentinel

RECURSIVE SumSeq(_)
SumSeq(vals) ==
    IF vals = <<>> THEN 0 ELSE Head(vals)[1] + SumSeq(Tail(vals))

\* The job's reduce function: sum(counts).
ReduceFn(key, vals) == <<SumSeq(vals)>>

\* The staged input: a dict chunk id -> chunk, one word per chunk.
Chunk(w) == << <<w>> >>

JobData(n, wordOf) == [i \in 1..n |-> << <<i>>, Chunk(wordOf[i]) >>]

\* The words are interchangeable: the first chunk holds the first of them.
Jobs ==
    UNION {{JobData(n, wf) : wf \in {g \in [1..n -> Words] : g[1] = 11}}
           : n \in 1..MaxChunks}

\* A record on which the job's map function raises.
BadWord == 0

\* The jobs whose first chunk holds such a record.
FaultyJobs ==
    UNION {{JobData(n, wf) : wf \in {g \in [1..n -> Words \cup {BadWord}] : g[1] = BadWord}}
           : n \in 1..MaxChunks}

\* word_count.map_function: one (word, 1) pair for every word of the line(s)
\* handed to it, as a list.
WordCountMap(task_id, task) == [i \in 1..Len(task) |-> <<task[i], <<1>>>>]

\* The values word_count.reduce_function can add up.
Countable == {<<c>> : c \in 0..(MaxChunks * MaxRecords)}

\* word_count.reduce_function: sum(counts), which raises on anything but
\* numbers.
WordCountReduce(key, vals) ==
    IF \A i \in 1..Len(vals) : vals[i] \in Countable THEN ReduceFn(key, vals)
    ELSE ErrorSentinel

\* The lines a chunk may hold: one to MaxRecords words, the first of them
\* the first word.
Lines ==
    UNION {{<<11>> \o r : r \in [1..(n - 1) -> Words]} : n \in 1..MaxRecords}

\* The staged input of a word count: a dict chunk id -> the words of a line.
WordCountJobs ==
    UNION {{[i \in 1..n |-> << <<i>>, [j \in 1..Len(l[i]) |-> <<l[i][j]>>] >>]
              : l \in [1..n -> Lines]}
           : n \in 1..MaxChunks}

\* ----------------------------------------------------------------- threads
Free == <<"free", 0>>
MainThread == <<"main", 0>>
BackupThread == <<"backup", 0>>
HandlerThread(f) == <<"handler", f>>

LockNames == {"followers", "map", "reduce", "results"}

\* ------------------------------------------------------------------- state
VARIABLES
    heap,             \* dict object -> its entries
    map_tasks,        \* Master._map_tasks: the dict objects of its three fields
    reduce_tasks,     \* Master._reduce_tasks
    followers,        \* Master._followers (busy)
    idle_followers,   \* Master._idle_followers
    results,          \* Master._results
    map_function,     \* Master._map_function ("none" until a job is found)
    reduce_function,  \* Master._reduce_function
    lock,             \* the four mutexes: lock name -> owning thread
    pc_main,          \* position of _master_loop
    phase,            \* which dispatch loop _master_loop is in
    worker,           \* _assign_task's worker_addr while inside worker.do
    pc_backup,        \* position of _backup_loop
    handler,          \* follower -> the report_task call it has in progress
    jobs,             \* follower -> the do() calls it received and has not reported
    up,               \* follower -> reachable
    staged,           \* DHT: the three staging keys are present
    dht_data,         \* DHT: master/staged/data
    dht_backup,       \* DHT: master/backup (<<>> when absent)
    dht_final,        \* DHT: map-reduce/final-results (<<>> when absent)
    crashes,          \* Master processes lost so far
    fcrashes,         \* followers lost so far
    resubs,           \* subscribe calls made by a follower that was busy
    ns_uri,           \* node -> NameServer._uri (NoURI while None)
    ns_daemon,        \* node -> NameServer._ns_daemon is set and serving
    ns_alive,         \* node -> NameServer._alive
    ns_pc,            \* node -> position of its nameserver_loop
    ns_curr,          \* node -> curr_ns of the refresh in progress
    ns_new,           \* node -> new_ns of the refresh in progress
    ns_up,            \* node -> the machine is running
    ns_round,         \* node -> its contest round since the last membership change
    ns_failures,      \* machines lost so far
    ns_reg,           \* per daemon, its registry: name -> endpoint
    repeats,          \* report_task calls delivered a second time so far
    cl_pc,            \* client: position of the program using ServerInterface
    cl_lock,          \* ServerInterface.results_lock is held
    cl_results,       \* ServerInterface.results (<<>> while None)
    cl_ret,           \* what await_results returned (<<>> for None)
    cl_notified       \* notify_results has been invoked

nsVars == <<ns_uri, ns_daemon, ns_alive, ns_pc, ns_curr, ns_new, ns_up,
            ns_round, ns_failures, ns_reg>>

mrVars == <<heap, map_tasks, reduce_tasks, followers, idle_followers, results,
            map_function, reduce_function, lock, pc_main, phase, worker,
            pc_backup, handler, jobs, up, staged, dht_data, dht_backup,
            dht_final, crashes, fcrashes, resubs, repeats>>

clVars == <<cl_pc, cl_lock, cl_results, cl_ret, cl_notified>>

vars == <<mrVars, nsVars, clVars>>

masterVars == <<heap, map_tasks, reduce_tasks, followers, idle_followers,
                results, map_function, reduce_function, lock, pc_main, phase,
                worker, pc_backup, handler>>

\* ------------------------------------------------------------- TaskGroup
\* TaskGroup.__init__: the default arguments are three dict objects created
\* once, when the class is defined; every TaskGroup() receives those same three.
DefaultGroup == [pending |-> "P0", assigned |-> "A0", completed |-> "C0"]

Refs == {"P0", "A0", "C0", "DATA"}

EmptyHeap == [r \in Refs |-> EmptyDict]

\* TaskGroup.any
any(h, tg) == Len(h[tg.pending]) > 0 \/ Len(h[tg.assigned]) > 0

\* TaskGroup.none
none(h, tg) == Len(h[tg.pending]) = 0 /\ Len(h[tg.assigned]) = 0

\* The container set_as_complete finds task_id in ("" when in neither).
FoundIn(h, tg, task_id) ==
    IF Has(h[tg.pending], task_id) THEN tg.pending
    ELSE IF Has(h[tg.assigned], task_id) THEN tg.assigned
    ELSE ""

\* TaskGroup.set_as_complete: the heap afterwards.
set_as_complete(h, tg, task_id) ==
    LET c == FoundIn(h, tg, task_id)
    IN  IF c = "" THEN h
        ELSE LET task == Get(h[c], task_id)
                 h1 == [h EXCEPT ![c] = DictPop(h[c], task_id)]
             IN  [h1 EXCEPT ![tg.completed] = DictSet(h1[tg.completed], task_id, task)]

\* TaskGroup.reset: the heap afterwards.
reset(h, tg) ==
    [h EXCEPT ![tg.pending] = EmptyDict, ![tg.assigned] = EmptyDict,
              ![tg.completed] = EmptyDict]

\* TaskGroup.reset_assigned_to_pending: the heap afterwards.
reset_assigned_to_pending(h, tg) ==
    LET h1 == [h EXCEPT ![tg.pending] = DictUpdate(h[tg.pending], h[tg.assigned])]
    IN  [h1 EXCEPT ![tg.assigned] = EmptyDict]

\* TaskGroup.dump
dump(tg) == <<tg.pending, tg.assigned, tg.completed>>

\* TaskGroup.load
load(ts) == [pending |-> ts[1], assigned |-> ts[2], completed |-> ts[3]]

\* ------------------------------------------------------------------ Init
NoCall == [pc |-> "none", task_id |-> <<>>, func |-> "none", result |-> <<>>]

\* ------------------------------------------------------- ServerInterface
\* The class attributes of ServerInterface before any call: results = None and
\* a free results_lock.
ClientInit ==
    /\ cl_pc = "init"
    /\ cl_lock = FALSE
    /\ cl_results = <<>>
    /\ cl_ret = <<>>
    /\ cl_notified = FALSE

\* ------------------------------------------------------------ NameServer
\* A URI is the number of the node whose daemon it names; None is NoURI.
NoURI == 0

\* utils.id: the hash of a URI, injective on the nodes and not monotone.
id(u) == (7 * u) % 11

\* NameServer.is_local / is_remote: _ip against _uri.host
is_local(n) == ns_uri[n] = n

is_remote(n) == ~is_local(n)

\* The naming daemons that answer on the network.
RunningDaemons == {m \in Nodes : ns_up[m] /\ ns_daemon[m]}

\* utils.reachable: the daemon a URI names answers.
reachable(u) == u \in RunningDaemons

\* NameServer._locate_nameserver: Pyro4.locateNS returns the first daemon that
\* answers the broadcast, the caller's own included; None when no one answers.
Located == IF RunningDaemons = {} THEN {NoURI} ELSE RunningDaemons

\* The names and endpoints nodes register; NoAddr marks a name that is not bound.
Names == 1..NumNames

Addrs == 1..NumAddrs

NoAddr == 0

\* The registry of a daemon that is not running, or has just been started.
EmptyRegistry == [k \in Names |-> NoAddr]

\* _stop_local_nameserver, lines 99-103: every binding of the sender is
\* registered at the receiver with safe=True, which keeps a binding the
\* receiver already has.
Forwarded(sender, recv) ==
    [k \in Names |-> IF recv[k] # NoAddr THEN recv[k] ELSE sender[k]]

\* NameServer.__init__ on every node
NSInit ==
    /\ ns_uri = [n \in Nodes |-> NoURI]
    /\ ns_daemon = [n \in Nodes |-> FALSE]
    /\ ns_alive = [n \in Nodes |-> FALSE]
    /\ ns_pc = [n \in Nodes |-> "idle"]
    /\ ns_curr = [n \in Nodes |-> NoURI]
    /\ ns_new = [n \in Nodes |-> NoURI]
    /\ ns_up = [n \in Nodes |-> TRUE]
    /\ ns_round = [n \in Nodes |-> "none"]
    /\ ns_failures = 0
    /\ ns_reg = [n \in Nodes |-> EmptyRegistry]

\* A membership change starts the count of contest rounds afresh.
NoRounds == [n \in Nodes |-> "none"]

\* NameServer.start: _start_local_nameserver, then the checker loop.
NSStart(n) ==
    /\ ns_up[n]
    /\ ~ns_alive[n]
    /\ ~ns_daemon[n]
    /\ ns_uri' = [ns_uri EXCEPT ![n] = n]
    /\ ns_daemon' = [ns_daemon EXCEPT ![n] = TRUE]
    /\ ns_alive' = [ns_alive EXCEPT ![n] = TRUE]
    /\ ns_round' = NoRounds
    /\ UNCHANGED <<ns_pc, ns_curr, ns_new, ns_up, ns_failures, ns_reg, mrVars, clVars>>

\* refresh_nameserver, lines 132-133: read _uri, then locate.
NSLocate(n) ==
    /\ ns_alive[n]
    /\ ns_pc[n] = "idle"
    /\ ns_curr' = [ns_curr EXCEPT ![n] = ns_uri[n]]
    /\ \E u \in Located : ns_new' = [ns_new EXCEPT ![n] = u]
    /\ ns_pc' = [ns_pc EXCEPT ![n] = "decide"]
    /\ ns_round' = [ns_round EXCEPT ![n] = IF @ = "none" THEN "started" ELSE @]
    /\ UNCHANGED <<ns_uri, ns_daemon, ns_alive, ns_up, ns_failures, ns_reg, mrVars, clVars>>

\* A node binds a name through NameServer.bind(): a proxy to the daemon its
\* _uri names, which has to answer; register replaces an older binding.
NSRegister(n, k, a) ==
    /\ ns_alive[n]
    /\ reachable(ns_uri[n])
    /\ ns_reg' = [ns_reg EXCEPT ![ns_uri[n]][k] = a]
    /\ UNCHANGED <<ns_uri, ns_daemon, ns_alive, ns_pc, ns_curr, ns_new, ns_up,
                   ns_round, ns_failures, mrVars, clVars>>

FoundNever(n) == FALSE

\* refresh_nameserver, line 138: discovery returned a daemon for the proxy to
\* rebind to.
FoundOther(n) == ns_new[n] # NoURI

YieldsWhenLower(n) == id(ns_curr[n]) < id(ns_new[n])

\* refresh_nameserver, line 147: the local daemon gives way to the contesting
\* one.
Yields(n) == id(ns_curr[n]) >= id(ns_new[n])

\* refresh_nameserver, lines 135-151, with _start_local_nameserver and
\* _stop_local_nameserver(forward_to) where the code calls them: the
\* forwarding loop raises when the receiver does not answer, the error is
\* logged, and the daemon is shut down all the same.
NSDecide(n) ==
    /\ ns_alive[n]
    /\ ns_pc[n] = "decide"
    /\ IF is_remote(n)
       THEN IF ~reachable(ns_curr[n])
            THEN IF FoundOther(n)
                 THEN /\ ns_uri' = [ns_uri EXCEPT ![n] = ns_new[n]]
                      /\ UNCHANGED <<ns_daemon, ns_reg>>
                 ELSE /\ ns_uri' = [ns_uri EXCEPT ![n] = n]
                      /\ ns_daemon' = [ns_daemon EXCEPT ![n] = TRUE]
                      /\ ns_reg' = [ns_reg EXCEPT ![n] = EmptyRegistry]
            ELSE UNCHANGED <<ns_uri, ns_daemon, ns_reg>>
       ELSE IF ns_new[n] # NoURI /\ ns_new[n] # ns_curr[n] /\ Yields(n)
            THEN /\ ns_reg' = IF reachable(ns_new[n])
                              THEN [ns_reg EXCEPT
                                      ![ns_new[n]] = Forwarded(ns_reg[n], @),
                                      ![n] = EmptyRegistry]
                              ELSE [ns_reg EXCEPT ![n] = EmptyRegistry]
                 /\ ns_uri' = [ns_uri EXCEPT ![n] = ns_new[n]]
                 /\ ns_daemon' = [ns_daemon EXCEPT ![n] = FALSE]
            ELSE UNCHANGED <<ns_uri, ns_daemon, ns_reg>>
    /\ ns_pc' = [ns_pc EXCEPT ![n] = "idle"]
    /\ ns_curr' = [ns_curr EXCEPT ![n] = NoURI]
    /\ ns_new' = [ns_new EXCEPT ![n] = NoURI]
    /\ ns_round' = [ns_round EXCEPT ![n] = IF @ = "started" THEN "done" ELSE @]
    /\ UNCHANGED <<ns_alive, ns_up, ns_failures, mrVars, clVars>>

\* NameServer.stop: the checker thread is killed; a local daemon is shut down
\* and _uri is left as it was.
NSStop(n) ==
    /\ ns_alive[n]
    /\ ns_alive' = [ns_alive EXCEPT ![n] = FALSE]
    /\ ns_pc' = [ns_pc EXCEPT ![n] = "idle"]
    /\ ns_daemon' = [ns_daemon EXCEPT ![n] = IF is_local(n) THEN FALSE ELSE @]
    /\ ns_reg' = [ns_reg EXCEPT ![n] = IF is_local(n) THEN EmptyRegistry ELSE @]
    /\ ns_curr' = [ns_curr EXCEPT ![n] = NoURI]
    /\ ns_new' = [ns_new EXCEPT ![n] = NoURI]
    /\ ns_round' = NoRounds
    /\ UNCHANGED <<ns_uri, ns_up, ns_failures, mrVars, clVars>>

\* The machine of a node is lost with everything that runs on it.
NSFail(n) ==
    /\ ns_up[n]
    /\ ns_alive[n]
    /\ ns_failures < MaxNSFailures
    /\ ns_up' = [ns_up EXCEPT ![n] = FALSE]
    /\ ns_daemon' = [ns_daemon EXCEPT ![n] = FALSE]
    /\ ns_alive' = [ns_alive EXCEPT ![n] = FALSE]
    /\ ns_pc' = [ns_pc EXCEPT ![n] = "idle"]
    /\ ns_round' = NoRounds
    /\ ns_curr' = [ns_curr EXCEPT ![n] = NoURI]
    /\ ns_new' = [ns_new EXCEPT ![n] = NoURI]
    /\ ns_failures' = ns_failures + 1
    /\ ns_reg' = [ns_reg EXCEPT ![n] = EmptyRegistry]
    /\ UNCHANGED <<ns_uri, mrVars, clVars>>

\* Master.__init__ followed by Master.start
MasterInit ==
    /\ heap = EmptyHeap
    /\ map_tasks = DefaultGroup
    /\ reduce_tasks = DefaultGroup
    /\ followers = {}
    /\ idle_followers = {}
    /\ results = <<>>
    /\ map_function = "none"
    /\ reduce_function = "none"
    /\ lock = [l \in LockNames |-> Free]
    /\ pc_main = "await"
    /\ phase = "map"
    /\ worker = 0
    /\ pc_backup = "off"
    /\ handler = [f \in Followers |-> NoCall]

Init ==
    /\ MasterInit
    /\ jobs = [f \in Followers |-> <<>>]
    /\ up = [f \in Followers |-> TRUE]
    /\ staged = FALSE
    /\ dht_data = EmptyDict
    /\ dht_backup = <<>>
    /\ dht_final = <<>>
    /\ crashes = 0
    /\ fcrashes = 0
    /\ resubs = 0
    /\ repeats = 0
    /\ NSInit
    /\ ClientInit

\* ------------------------------------------------------- request handler
\* RequestHandler.startup: the three staging keys are inserted together.
Stage ==
    /\ ~staged
    /\ staged' = TRUE
    /\ dht_data' \in Jobs
    /\ UNCHANGED <<masterVars, jobs, up, dht_backup, dht_final, crashes, fcrashes, resubs, repeats, nsVars, clVars>>

\* RequestHandler.startup with data on which the map function raises.
StageFaulty ==
    /\ ~staged
    /\ staged' = TRUE
    /\ dht_data' \in FaultyJobs
    /\ UNCHANGED <<masterVars, jobs, up, dht_backup, dht_final, crashes,
                   fcrashes, resubs, repeats, nsVars, clVars>>

\* RequestHandler.startup with the data of a word count.
StageWordCount ==
    /\ ~staged
    /\ staged' = TRUE
    /\ dht_data' \in WordCountJobs
    /\ UNCHANGED <<masterVars, jobs, up, dht_backup, dht_final, crashes,
                   fcrashes, resubs, repeats, nsVars, clVars>>

\* ------------------------------------------------------------ _master_loop
\* AwaitJob without the test of _get_serialized_functions.
AwaitJobUnchecked ==
    /\ pc_main = "await"
    /\ map_function' = "map"
    /\ reduce_function' = "reduce"
    /\ pc_main' = "recover"
    /\ UNCHANGED <<heap, map_tasks, reduce_tasks, followers, idle_followers,
                   results, lock, phase, worker, pc_backup, handler, jobs, up,
                   staged, dht_data, dht_backup, dht_final, crashes, fcrashes,
                   resubs, repeats, nsVars, clVars>>

\* Lines 252-257: poll the DHT until the serialized functions are found.
AwaitJob ==
    /\ pc_main = "await"
    /\ staged
    /\ map_function' = "map"
    /\ reduce_function' = "reduce"
    /\ pc_main' = "recover"
    /\ UNCHANGED <<heap, map_tasks, reduce_tasks, followers, idle_followers,
                   results, lock, phase, worker, pc_backup, handler, jobs, up,
                   staged, dht_data, dht_backup, dht_final, crashes, fcrashes, resubs, repeats, nsVars, clVars>>

\* What _backup_loop hands to dht.insert: the four-tuple, serialized in one
\* piece, so dict objects shared inside it are shared in the copy.
Snapshot ==
    [mt |-> dump(map_tasks), rt |-> dump(reduce_tasks), heap |-> heap,
     fol |-> followers \cup idle_followers, results |-> results]

\* Lines 270-282: the state loaded from a backup.
LoadedHeap(b) ==
    LET h1 == reset_assigned_to_pending(b.heap, load(b.mt))
    IN  reset_assigned_to_pending(h1, load(b.rt))

\* Lines 287-289: the heap after a start from scratch.
FreshHeap ==
    LET h1 == reset(heap, map_tasks)
        h2 == reset(h1, reduce_tasks)
    IN  [h2 EXCEPT !["DATA"] = dht_data]

\* Lines 268-295: recovery from the backup, or a start from scratch; then the
\* backup thread is spawned.
Recover ==
    /\ pc_main = "recover"
    /\ IF dht_backup # <<>>
       THEN LET b == dht_backup[1]
            IN  /\ map_tasks' = load(b.mt)
                /\ reduce_tasks' = load(b.rt)
                /\ heap' = LoadedHeap(b)
                /\ followers' = {}
                /\ idle_followers' = b.fol
                /\ results' = b.results
       ELSE /\ heap' = FreshHeap
            /\ map_tasks' = [map_tasks EXCEPT !.pending = "DATA"]
            /\ UNCHANGED <<reduce_tasks, followers, idle_followers, results>>
    /\ pc_backup' = "lock"
    /\ pc_main' = "test"
    /\ phase' = "map"
    /\ UNCHANGED <<map_function, reduce_function, lock, worker, handler, jobs,
                   up, staged, dht_data, dht_backup, dht_final, crashes, fcrashes, resubs, repeats, nsVars, clVars>>

\* The TaskGroup the current dispatch loop works on.
PhaseGroup == IF phase = "map" THEN map_tasks ELSE reduce_tasks

PhaseFunction == IF phase = "map" THEN map_function ELSE reduce_function

\* Lines 299 and 305: the loop conditions, read without any lock.
LoopTest ==
    /\ pc_main = "test"
    /\ IF any(heap, PhaseGroup)
       THEN pc_main' = "lock" /\ phase' = phase
       ELSE IF phase = "map"
            THEN pc_main' = "test" /\ phase' = "reduce"
            ELSE pc_main' = "commit" /\ phase' = phase
    /\ UNCHANGED <<heap, map_tasks, reduce_tasks, followers, idle_followers,
                   results, map_function, reduce_function, lock, worker,
                   pc_backup, handler, jobs, up, staged, dht_data, dht_backup,
                   dht_final, crashes, fcrashes, resubs, repeats, nsVars, clVars>>

\* Line 206: the three locks of _assign_task, taken one after the other.
AssignLockOrder == <<"followers", "map", "reduce">>

HeldBy(t) == {l \in LockNames : lock[l] = t}

\* The main thread takes the next lock of its `with` statement.
AssignAcquire ==
    /\ pc_main = "lock"
    /\ LET i == Cardinality(HeldBy(MainThread)) + 1
       IN  /\ lock[AssignLockOrder[i]] = Free
           /\ lock' = [lock EXCEPT ![AssignLockOrder[i]] = MainThread]
           /\ pc_main' = IF i < Len(AssignLockOrder) THEN "lock" ELSE "body"
    /\ UNCHANGED <<heap, map_tasks, reduce_tasks, followers, idle_followers,
                   results, map_function, reduce_function, phase, worker,
                   pc_backup, handler, jobs, up, staged, dht_data, dht_backup,
                   dht_final, crashes, fcrashes, resubs, repeats, nsVars, clVars>>

ReleaseAll(t) == [l \in LockNames |-> IF lock[l] = t THEN Free ELSE lock[l]]

\* dict.popitem(): the last entry.
LastItem(d) == d[Len(d)]

\* Lines 207-215: the body of _assign_task up to the call of worker.do.
AssignBody ==
    /\ pc_main = "body"
    /\ IF idle_followers = {}
       THEN /\ lock' = ReleaseAll(MainThread)
            /\ pc_main' = "test"
            /\ UNCHANGED <<heap, followers, idle_followers, worker, jobs>>
       ELSE \E w \in idle_followers :
            /\ idle_followers' = idle_followers \ {w}
            /\ IF up[w] /\ Len(heap[PhaseGroup.pending]) > 0
               THEN LET tg == PhaseGroup
                        item == LastItem(heap[tg.pending])
                        h1 == [heap EXCEPT ![tg.pending] = DictPop(heap[tg.pending], item[1])]
                    IN  /\ heap' = [h1 EXCEPT ![tg.assigned] =
                                        DictSet(h1[tg.assigned], item[1], item[2])]
                        /\ followers' = followers \cup {w}
                        /\ jobs' = [jobs EXCEPT ![w] = Append(@,
                                      [task_id |-> item[1], task |-> item[2],
                                       func |-> PhaseFunction])]
                        /\ worker' = w
                        /\ pc_main' = "do"
                        /\ lock' = lock
               ELSE /\ lock' = ReleaseAll(MainThread)
                    /\ pc_main' = "test"
                    /\ UNCHANGED <<heap, followers, worker, jobs>>
    /\ UNCHANGED <<map_tasks, reduce_tasks, results, map_function,
                   reduce_function, phase, pc_backup, handler, up, staged,
                   dht_data, dht_backup, dht_final, crashes, fcrashes, resubs, repeats, nsVars, clVars>>

\* Lines 215-217: worker.do returns; _assign_task returns True, the locks are
\* released and the loop sleeps.
DoReturn ==
    /\ pc_main = "do"
    /\ lock' = ReleaseAll(MainThread)
    /\ worker' = 0
    /\ pc_main' = "test"
    /\ UNCHANGED <<heap, map_tasks, reduce_tasks, followers, idle_followers,
                   results, map_function, reduce_function, phase, pc_backup,
                   handler, jobs, up, staged, dht_data, dht_backup, dht_final,
                   crashes, fcrashes, resubs, repeats, nsVars, clVars>>

\* Line 215: worker.do raises (the follower was lost during the call); nothing
\* in _assign_task or _master_loop catches it, so the thread ends.
DoFail ==
    /\ pc_main = "do"
    /\ ~up[worker]
    /\ lock' = ReleaseAll(MainThread)
    /\ worker' = 0
    /\ pc_main' = "dead"
    /\ UNCHANGED <<heap, map_tasks, reduce_tasks, followers, idle_followers,
                   results, map_function, reduce_function, phase, pc_backup,
                   handler, jobs, up, staged, dht_data, dht_backup, dht_final,
                   crashes, fcrashes, resubs, repeats, nsVars, clVars>>

\* Lines 310-313: the results are written to map-reduce/final-results.
Commit ==
    /\ pc_main = "commit"
    /\ dht_final' = <<results>>
    /\ pc_main' = "done"
    /\ UNCHANGED <<heap, map_tasks, reduce_tasks, followers, idle_followers,
                   results, map_function, reduce_function, lock, phase, worker,
                   pc_backup, handler, jobs, up, staged, dht_data, dht_backup,
                   crashes, fcrashes, resubs, repeats, nsVars, clVars>>

\* ------------------------------------------------------------ _backup_loop
\* Lines 323-324: the four locks of the snapshot, in the order of the `with`.
BackupLockOrder == <<"followers", "results", "map", "reduce">>

BackupAcquire ==
    /\ pc_backup = "lock"
    /\ LET i == Cardinality(HeldBy(BackupThread)) + 1
       IN  /\ lock[BackupLockOrder[i]] = Free
           /\ lock' = [lock EXCEPT ![BackupLockOrder[i]] = BackupThread]
           /\ pc_backup' = IF i < Len(BackupLockOrder) THEN "lock" ELSE "write"
    /\ UNCHANGED <<heap, map_tasks, reduce_tasks, followers, idle_followers,
                   results, map_function, reduce_function, pc_main, phase,
                   worker, handler, jobs, up, staged, dht_data, dht_backup,
                   dht_final, crashes, fcrashes, resubs, repeats, nsVars, clVars>>

\* Lines 325-329: the snapshot is inserted under master/backup; the locks are
\* released and the loop sleeps.
BackupWrite ==
    /\ pc_backup = "write"
    /\ dht_backup' = <<Snapshot>>
    /\ lock' = ReleaseAll(BackupThread)
    /\ pc_backup' = "lock"
    /\ UNCHANGED <<heap, map_tasks, reduce_tasks, followers, idle_followers,
                   results, map_function, reduce_function, pc_main, phase,
                   worker, handler, jobs, up, staged, dht_data, dht_final,
                   crashes, fcrashes, resubs, repeats, nsVars, clVars>>

\* Lines 330-331: the DHT call raises CommunicationError; nothing is written.
BackupFail ==
    /\ pc_backup = "write"
    /\ lock' = ReleaseAll(BackupThread)
    /\ pc_backup' = "lock"
    /\ UNCHANGED <<heap, map_tasks, reduce_tasks, followers, idle_followers,
                   results, map_function, reduce_function, pc_main, phase,
                   worker, handler, jobs, up, staged, dht_data, dht_backup,
                   dht_final, crashes, fcrashes, resubs, repeats, nsVars, clVars>>

\* --------------------------------------------------------------- subscribe
\* Lines 141-146: no lock is taken and the busy set is not consulted.
subscribe(f) ==
    /\ up[f]
    /\ f \notin idle_followers
    /\ f \in followers => resubs < MaxResubscribes
    /\ resubs' = IF f \in followers THEN resubs + 1 ELSE resubs
    /\ idle_followers' = idle_followers \cup {f}
    /\ UNCHANGED <<heap, map_tasks, reduce_tasks, followers, results,
                   map_function, reduce_function, lock, pc_main, phase, worker,
                   pc_backup, handler, jobs, up, staged, dht_data, dht_backup,
                   dht_final, crashes, fcrashes, repeats, nsVars, clVars>>

\* ---------------------------------------------------------------- Follower
\* Follower.do: the function is run on the oldest task received and
\* master.report_task is called with its result.
FollowerResult(job) ==
    IF job.func = "map" THEN MapFn(job.task_id, job.task)
    ELSE ReduceFn(job.task_id, job.task)

FollowerReport(f) ==
    /\ up[f]
    /\ jobs[f] # <<>>
    /\ handler[f].pc = "none"
    /\ handler' = [handler EXCEPT ![f] =
                      [pc |-> "followers", task_id |-> Head(jobs[f]).task_id,
                       func |-> Head(jobs[f]).func,
                       result |-> FollowerResult(Head(jobs[f]))]]
    /\ jobs' = [jobs EXCEPT ![f] = Tail(@)]
    /\ UNCHANGED <<heap, map_tasks, reduce_tasks, followers, idle_followers,
                   results, map_function, reduce_function, lock, pc_main, phase,
                   worker, pc_backup, up, staged, dht_data, dht_backup,
                   dht_final, crashes, fcrashes, resubs, repeats, nsVars, clVars>>

\* The follower's report_task call is delivered while the follower keeps the
\* task for a second delivery (its reply was lost and the call is retried).
RepeatReport(f) ==
    /\ up[f]
    /\ jobs[f] # <<>>
    /\ handler[f].pc = "none"
    /\ repeats < MaxRepeats
    /\ repeats' = repeats + 1
    /\ handler' = [handler EXCEPT ![f] =
                      [pc |-> "followers", task_id |-> Head(jobs[f]).task_id,
                       func |-> Head(jobs[f]).func,
                       result |-> FollowerResult(Head(jobs[f]))]]
    /\ UNCHANGED <<heap, map_tasks, reduce_tasks, followers, idle_followers,
                   results, map_function, reduce_function, lock, pc_main, phase,
                   worker, pc_backup, jobs, up, staged, dht_data, dht_backup,
                   dht_final, crashes, fcrashes, resubs, nsVars, clVars>>

\* A follower reports its task with a function blob that is not one of the
\* two functions of the job.
ForeignReport(f) ==
    /\ up[f]
    /\ jobs[f] # <<>>
    /\ handler[f].pc = "none"
    /\ handler' = [handler EXCEPT ![f] =
                      [pc |-> "followers", task_id |-> Head(jobs[f]).task_id,
                       func |-> "other",
                       result |-> FollowerResult(Head(jobs[f]))]]
    /\ jobs' = [jobs EXCEPT ![f] = Tail(@)]
    /\ UNCHANGED <<heap, map_tasks, reduce_tasks, followers, idle_followers,
                   results, map_function, reduce_function, lock, pc_main, phase,
                   worker, pc_backup, up, staged, dht_data, dht_backup,
                   dht_final, crashes, fcrashes, resubs, repeats, nsVars, clVars>>

\* Follower.do with the functions of the word count example: the list the map
\* function returns is reported as it is.
WordCountReport(f) ==
    /\ up[f]
    /\ jobs[f] # <<>>
    /\ handler[f].pc = "none"
    /\ LET job == Head(jobs[f])
       IN  handler' = [handler EXCEPT ![f] =
                         [pc |-> "followers", task_id |-> job.task_id,
                          func |-> job.func,
                          result |-> IF job.func = "map"
                                     THEN WordCountMap(job.task_id, job.task)
                                     ELSE WordCountReduce(job.task_id, job.task)]]
    /\ jobs' = [jobs EXCEPT ![f] = Tail(@)]
    /\ UNCHANGED <<heap, map_tasks, reduce_tasks, followers, idle_followers,
                   results, map_function, reduce_function, lock, pc_main, phase,
                   worker, pc_backup, up, staged, dht_data, dht_backup,
                   dht_final, crashes, fcrashes, resubs, repeats, nsVars, clVars>>

\* -------------------------------------------------------------- report_task
\* Lines 153-162, 169, 175: the follower is set to idle under followers_lock,
\* then the branch is chosen by the function blob.
ReportFollowers(f) ==
    /\ handler[f].pc = "followers"
    /\ lock["followers"] = Free
    /\ IF f \in followers
       THEN /\ followers' = followers \ {f}
            /\ idle_followers' = idle_followers \cup {f}
       ELSE UNCHANGED <<followers, idle_followers>>
    /\ handler' = [handler EXCEPT ![f] =
                      IF handler[f].func = map_function
                      THEN [@ EXCEPT !.pc = "map_lock"]
                      ELSE IF handler[f].func = reduce_function
                      THEN [@ EXCEPT !.pc = "reduce_lock"]
                      ELSE NoCall]
    /\ UNCHANGED <<heap, map_tasks, reduce_tasks, results, map_function,
                   reduce_function, lock, pc_main, phase, worker, pc_backup,
                   jobs, up, staged, dht_data, dht_backup, dht_final, crashes,
                   fcrashes, resubs, repeats, nsVars, clVars>>

\* Lines 164-165: the map task is marked complete under map_tasks_lock.
ReportMapComplete(f) ==
    /\ handler[f].pc = "map_lock"
    /\ lock["map"] = Free
    /\ heap' = set_as_complete(heap, map_tasks, handler[f].task_id)
    /\ handler' = [handler EXCEPT ![f].pc = "shuffle"]
    /\ UNCHANGED <<map_tasks, reduce_tasks, followers, idle_followers, results,
                   map_function, reduce_function, lock, pc_main, phase, worker,
                   pc_backup, jobs, up, staged, dht_data, dht_backup, dht_final,
                   crashes, fcrashes, resubs, repeats, nsVars, clVars>>

\* Line 167: `out_key, inter_val = result` succeeds on a result of two items.
Unpacks(result) == Len(result) = 2

\* Line 168: pending.setdefault(out_key, []).append(inter_val)
Shuffled(d, result) ==
    LET out_key == result[1]
        inter_val == result[2]
    IN  IF Has(d, out_key)
        THEN DictSet(d, out_key, Append(Get(d, out_key), inter_val))
        ELSE DictSet(d, out_key, <<inter_val>>)

\* Lines 166-168: the output is added to the reduce group under
\* reduce_tasks_lock (or the unpacking raises and the call ends).
ReportShuffle(f) ==
    /\ handler[f].pc = "shuffle"
    /\ lock["reduce"] = Free
    /\ IF Unpacks(handler[f].result)
       THEN heap' = [heap EXCEPT ![reduce_tasks.pending] =
                        Shuffled(heap[reduce_tasks.pending], handler[f].result)]
       ELSE heap' = heap
    /\ handler' = [handler EXCEPT ![f] = NoCall]
    /\ UNCHANGED <<map_tasks, reduce_tasks, followers, idle_followers, results,
                   map_function, reduce_function, lock, pc_main, phase, worker,
                   pc_backup, jobs, up, staged, dht_data, dht_backup, dht_final,
                   crashes, fcrashes, resubs, repeats, nsVars, clVars>>

\* Line 171: reduce_tasks_lock is taken first ...
ReportReduceLock(f) ==
    /\ handler[f].pc = "reduce_lock"
    /\ lock["reduce"] = Free
    /\ lock' = [lock EXCEPT !["reduce"] = HandlerThread(f)]
    /\ handler' = [handler EXCEPT ![f].pc = "results_lock"]
    /\ UNCHANGED <<heap, map_tasks, reduce_tasks, followers, idle_followers,
                   results, map_function, reduce_function, pc_main, phase,
                   worker, pc_backup, jobs, up, staged, dht_data, dht_backup,
                   dht_final, crashes, fcrashes, resubs, repeats, nsVars, clVars>>

\* Lines 171-174: ... then results_lock; the reduce task is marked complete
\* and the result appended; both locks are released.
ReportReduceComplete(f) ==
    /\ handler[f].pc = "results_lock"
    /\ lock["results"] = Free
    /\ heap' = set_as_complete(heap, reduce_tasks, handler[f].task_id)
    /\ results' = Append(results, handler[f].result)
    /\ lock' = ReleaseAll(HandlerThread(f))
    /\ handler' = [handler EXCEPT ![f] = NoCall]
    /\ UNCHANGED <<map_tasks, reduce_tasks, followers, idle_followers,
                   map_function, reduce_function, pc_main, phase, worker,
                   pc_backup, jobs, up, staged, dht_data, dht_backup, dht_final,
                   crashes, fcrashes, resubs, repeats, nsVars, clVars>>

\* --------------------------------------------------------- ServerInterface
\* ServerInterface.startup, accepted: results_lock is acquired (line 24), the
\* request handler stages the job and answers truthy (line 33), the daemon is
\* returned (line 35).  Line 31 is read as the call Pyro4.locateNS().
ClientStartup ==
    /\ cl_pc = "init"
    /\ ~cl_lock
    /\ ~staged
    /\ cl_lock' = TRUE
    /\ staged' = TRUE
    /\ dht_data' \in Jobs
    /\ cl_pc' = "started"
    /\ UNCHANGED <<masterVars, jobs, up, dht_backup, dht_final, crashes,
                   fcrashes, resubs, repeats, nsVars, cl_results, cl_ret,
                   cl_notified>>

\* ServerInterface.startup, refused: the lock is acquired, the request handler
\* answers falsy and None is returned (lines 36-38).
ClientRefused ==
    /\ cl_pc = "init"
    /\ ~cl_lock
    /\ cl_lock' = TRUE
    /\ cl_pc' = "refused"
    /\ UNCHANGED <<mrVars, nsVars, cl_results, cl_ret, cl_notified>>

\* ServerInterface.notify_results, called with the committed results by the
\* party that watches map-reduce/final-results: the results are stored and
\* results_lock is released.
notify_results ==
    /\ dht_final # <<>>
    /\ ~cl_notified
    /\ cl_lock
    /\ cl_results' = dht_final
    /\ cl_lock' = FALSE
    /\ cl_notified' = TRUE
    /\ UNCHANGED <<mrVars, nsVars, cl_pc, cl_ret>>

\* The client program calls await_results after startup returned the daemon.
ClientAwait ==
    /\ cl_pc = "started"
    /\ cl_pc' = "awaiting"
    /\ UNCHANGED <<mrVars, nsVars, cl_lock, cl_results, cl_ret, cl_notified>>

\* ServerInterface.await_results, lines 42-43: the lock is acquired and
\* released; the method has no return statement, so None is returned.
await_results ==
    /\ cl_pc = "awaiting"
    /\ ~cl_lock
    /\ cl_ret' = <<>>
    /\ cl_pc' = "returned"
    /\ UNCHANGED <<mrVars, nsVars, cl_lock, cl_results, cl_notified>>

\* ------------------------------------------------------------------ failures
\* The Master process is lost; a new Master is constructed and started.  The
\* DHT keeps its keys, the followers drop the work of the lost Master.
MasterCrash ==
    /\ crashes < MaxCrashes
    /\ pc_main # "await"
    /\ crashes' = crashes + 1
    /\ heap' = EmptyHeap
    /\ map_tasks' = DefaultGroup
    /\ reduce_tasks' = DefaultGroup
    /\ followers' = {}
    /\ idle_followers' = {}
    /\ results' = <<>>
    /\ map_function' = "none"
    /\ reduce_function' = "none"
    /\ lock' = [l \in LockNames |-> Free]
    /\ pc_main' = "await"
    /\ phase' = "map"
    /\ worker' = 0
    /\ pc_backup' = "off"
    /\ handler' = [f \in Followers |-> NoCall]
    /\ jobs' = [f \in Followers |-> <<>>]
    /\ UNCHANGED <<up, staged, dht_data, dht_backup, dht_final, fcrashes, resubs, repeats, nsVars, clVars>>

\* Master.stop followed by Master.start on the same object (lines 178-198, the
\* pair main.py hands to the nameserver): the two threads are killed and
\* _master_loop is spawned anew; every attribute keeps its value.  Taken
\* while neither thread is inside a `with` block.
MasterRestart ==
    /\ crashes < MaxCrashes
    /\ pc_main \notin {"await", "dead"}
    /\ HeldBy(MainThread) = {}
    /\ HeldBy(BackupThread) = {}
    /\ crashes' = crashes + 1
    /\ pc_main' = "await"
    /\ pc_backup' = "off"
    /\ UNCHANGED <<heap, map_tasks, reduce_tasks, followers, idle_followers,
                   results, map_function, reduce_function, lock, phase, worker,
                   handler, jobs, up, staged, dht_data, dht_backup, dht_final,
                   fcrashes, resubs, repeats, nsVars, clVars>>

\* A follower is lost: it is unreachable from now on and reports nothing.
FollowerCrash(f) ==
    /\ fcrashes < MaxFollowerCrashes
    /\ up[f]
    /\ fcrashes' = fcrashes + 1
    /\ up' = [up EXCEPT ![f] = FALSE]
    /\ jobs' = [jobs EXCEPT ![f] = <<>>]
    /\ UNCHANGED <<masterVars, staged, dht_data, dht_backup, dht_final, crashes,
                   resubs, repeats, nsVars, clVars>>

\* ------------------------------------------------------------------- Next
\* The Master at work: the main loop, the backup loop, the followers and their
\* reports.
Work ==
    \/ AwaitJob
    \/ Recover
    \/ LoopTest
    \/ AssignAcquire
    \/ AssignBody
    \/ DoReturn
    \/ Commit
    \/ BackupAcquire
    \/ BackupWrite
    \/ BackupFail
    \/ \E f \in Followers :
         \/ subscribe(f)
         \/ FollowerReport(f)
         \/ ReportFollowers(f)
         \/ ReportMapComplete(f)
         \/ ReportShuffle(f)
         \/ ReportReduceLock(f)
         \/ ReportReduceComplete(f)

\* The job is staged by the request handler, then worked on.
Next == Stage \/ Work

Spec == Init /\ [][Next]_vars

\* The same with the loss of the Master process; one follower serves.
InitFailover ==
    /\ MasterInit
    /\ jobs = [f \in Followers |-> <<>>]
    /\ up = [f \in Followers |-> f = 1]
    /\ staged = FALSE
    /\ dht_data = EmptyDict
    /\ dht_backup = <<>>
    /\ dht_final = <<>>
    /\ crashes = 0
    /\ fcrashes = 0
    /\ resubs = 0
    /\ repeats = 0
    /\ NSInit
    /\ ClientInit

NextFailover == Next \/ MasterCrash

SpecFailover == InitFailover /\ [][NextFailover]_vars

\* The naming contest among the nodes: start, the checker loop, stop and the
\* loss of a node.
NextNS ==
    \E n \in Nodes :
        \/ NSStart(n)
        \/ NSLocate(n)
        \/ NSDecide(n)
        \/ NSStop(n)
        \/ NSFail(n)

SpecNS == Init /\ [][NextNS]_vars

\* NameServer.start, lines 160-164: the checker loop of a started node calls
\* refresh_nameserver again and again until the node is stopped.
NSFairness ==
    \A n \in Nodes : WF_vars(NSLocate(n)) /\ WF_vars(NSDecide(n))

SpecNSFair == Init /\ [][NextNS]_vars /\ NSFairness

\* The naming service with nodes that bind names.
NextRegistry ==
    \/ NextNS
    \/ \E n \in Nodes, k \in Names, a \in Addrs : NSRegister(n, k, a)

SpecRegistry == Init /\ [][NextRegistry]_vars

\* One follower serves and a report may be delivered twice.
NextRetry == Next \/ \E f \in Followers : RepeatReport(f)

SpecRetry == InitFailover /\ [][NextRetry]_vars

\* One follower serves and a report may carry a foreign function blob.
NextForeign == Next \/ \E f \in Followers : ForeignReport(f)

SpecForeign == InitFailover /\ [][NextForeign]_vars

\* A client submits the job through ServerInterface and awaits the results;
\* one follower serves.
NextClient ==
    \/ ClientStartup
    \/ ClientRefused
    \/ ClientAwait
    \/ notify_results
    \/ await_results
    \/ Work

SpecClient == InitFailover /\ [][NextClient]_vars

\* One follower serves a job in which the map function raises on a chunk.
NextFaulty == StageFaulty \/ Work

SpecFaulty == InitFailover /\ [][NextFaulty]_vars

\* One follower serves a word count: every step of the Master, the follower
\* running the functions of the example.
NextWordCount ==
    \/ StageWordCount
    \/ AwaitJob
    \/ Recover
    \/ LoopTest
    \/ AssignAcquire
    \/ AssignBody
    \/ DoReturn
    \/ Commit
    \/ BackupAcquire
    \/ BackupWrite
    \/ BackupFail
    \/ \E f \in Followers :
         \/ subscribe(f)
         \/ WordCountReport(f)
         \/ ReportFollowers(f)
         \/ ReportMapComplete(f)
         \/ ReportShuffle(f)
         \/ ReportReduceLock(f)
         \/ ReportReduceComplete(f)

SpecWordCount == InitFailover /\ [][NextWordCount]_vars

\* One follower serves; the Master may be stopped and started again.
NextRestart == Next \/ MasterRestart

SpecRestart == InitFailover /\ [][NextRestart]_vars

\* The same with the loss of followers.
NextLoss == Next \/ DoFail \/ \E f \in Followers : FollowerCrash(f)

SpecLoss == Init /\ [][NextLoss]_vars

\* The same with one follower serving.
SpecDispatchLoss == InitFailover /\ [][NextLoss]_vars

\* Every thread of the Master that can take its next step eventually takes it
\* (the threads are scheduled by the operating system, the loops sleep and
\* come back), and a follower that holds a task eventually reports it.
Fairness ==
    /\ WF_vars(AwaitJob)
    /\ WF_vars(Recover)
    /\ WF_vars(LoopTest)
    /\ WF_vars(AssignAcquire)
    /\ WF_vars(AssignBody)
    /\ WF_vars(DoReturn)
    /\ WF_vars(Commit)
    /\ WF_vars(BackupAcquire)
    /\ WF_vars(BackupWrite \/ BackupFail)
    /\ \A f \in Followers :
         /\ WF_vars(FollowerReport(f))
         /\ WF_vars(ReportFollowers(f))
         /\ WF_vars(ReportMapComplete(f))
         /\ WF_vars(ReportShuffle(f))
         /\ WF_vars(ReportReduceLock(f))
         /\ WF_vars(ReportReduceComplete(f))

\* One follower serves; the threads are scheduled fairly.
SpecFair == InitFailover /\ [][Next]_vars /\ Fairness

\* A thread that waits for a lock gets it when the lock is free again and
\* again: no thread is starved by the others taking the lock in turn.
LockFairness ==
    /\ SF_vars(AssignAcquire)
    /\ SF_vars(BackupAcquire)
    /\ \A f \in Followers :
         /\ SF_vars(ReportFollowers(f))
         /\ SF_vars(ReportMapComplete(f))
         /\ SF_vars(ReportShuffle(f))
         /\ SF_vars(ReportReduceLock(f))
         /\ SF_vars(ReportReduceComplete(f))

\* One follower serves; fair scheduling of the threads and of the locks.
SpecLockFair == InitFailover /\ [][Next]_vars /\ Fairness /\ LockFairness

\* One follower serves and may be lost after it has accepted its task.
NextLostTask == Next \/ \E f \in Followers : FollowerCrash(f)

SpecLossFair == InitFailover /\ [][NextLostTask]_vars /\ Fairness

\* ================================================================== claims
\* ----------------------------------------------------- auxiliary operators
\* |pending| + |assigned| + |completed| of a TaskGroup.
Count(h, tg) == Len(h[tg.pending]) + Len(h[tg.assigned]) + Len(h[tg.completed])

Dispatching == pc_main \in {"test", "lock", "body", "do"}

\* No task id is in two of the three dicts of the group.
Exclusive(h, tg) ==
    /\ DictKeys(h[tg.pending]) \cap DictKeys(h[tg.assigned]) = {}
    /\ DictKeys(h[tg.pending]) \cap DictKeys(h[tg.completed]) = {}
    /\ DictKeys(h[tg.assigned]) \cap DictKeys(h[tg.completed]) = {}

Contains(vals, v) == \E i \in 1..Len(vals) : vals[i] = v

MapTaskIds == DictKeys(dht_data)

\* The entry <<key, value>> emitted for chunk i of the staged data.
Emitted(i) == MapFn(dht_data[i][1], dht_data[i][2])

EmittedKeys == {Emitted(i)[1] : i \in 1..Len(dht_data)}

\* The output of map task i is listed under its key in dict d.
ListedIn(d, i) ==
    \E j \in 1..Len(d) : d[j][1] = Emitted(i)[1] /\ Contains(d[j][2], Emitted(i)[2])

\* Some map task is in completed while its output is in no dict of the
\* reduce group.
HalfReported(h, mt, rt) ==
    \E i \in 1..Len(dht_data) :
        /\ Has(h[mt.completed], dht_data[i][1])
        /\ ~ListedIn(h[rt.pending] \o h[rt.assigned] \o h[rt.completed], i)

\* Every completed reduce task of the snapshot has its value in the results.
ReducedInResults(h, rt, res) ==
    \A j \in 1..Len(h[rt.completed]) :
        h[rt.completed][j][1] \in EmittedKeys =>
            Contains(res, ReduceFn(h[rt.completed][j][1], h[rt.completed][j][2]))

RECURSIVE SumFor(_, _)
SumFor(i, k) ==
    IF i = 0 THEN 0
    ELSE (IF Emitted(i)[1] = k THEN Emitted(i)[2][1] ELSE 0) + SumFor(i - 1, k)

\* The results of the job: for each key the sum of the values emitted for it.
ExpectedFor(k) == <<SumFor(Len(dht_data), k)>>

Occurrences(seq, x) == Cardinality({i \in 1..Len(seq) : seq[i] = x})

SameResults(res) ==
    /\ Len(res) = Cardinality(EmittedKeys)
    /\ \A k \in EmittedKeys :
         Occurrences(res, ExpectedFor(k)) =
            Cardinality({k2 \in EmittedKeys : ExpectedFor(k2) = ExpectedFor(k)})

\* Nothing is left to do: both groups are drained and no task or report is
\* outstanding.
Quiescent ==
    /\ none(heap, map_tasks)
    /\ none(heap, reduce_tasks)
    /\ \A f \in Followers : handler[f].pc = "none" /\ jobs[f] = <<>>

\* The task ids a TaskGroup holds in pending or assigned.
Unfinished(h, tg) == DictKeys(h[tg.pending]) \cup DictKeys(h[tg.assigned])

\* The nodes whose checker loop runs.
Contestants == {n \in Nodes : ns_alive[n]}

\* Every contestant has run a full contest round since the last membership
\* change and none is inside one.
RoundComplete ==
    /\ Contestants # {}
    /\ \A n \in Contestants : ns_round[n] = "done" /\ ns_pc[n] = "idle"

Rank(l) == CASE l = "followers" -> 1 [] l = "map" -> 2 [] l = "reduce" -> 3
             [] l = "results" -> 4

Threads == {MainThread, BackupThread} \cup {HandlerThread(f) : f \in Followers}

\* The lock a thread is waiting for ("" when it waits for none).
Wants(t) ==
    IF t = MainThread
    THEN (IF pc_main = "lock"
          THEN AssignLockOrder[Cardinality(HeldBy(MainThread)) + 1] ELSE "")
    ELSE IF t = BackupThread
    THEN (IF pc_backup = "lock"
          THEN BackupLockOrder[Cardinality(HeldBy(BackupThread)) + 1] ELSE "")
    ELSE LET p == handler[t[2]].pc
         IN  CASE p = "followers" -> "followers"
               [] p = "map_lock" -> "map"
               [] p \in {"shuffle", "reduce_lock"} -> "reduce"
               [] p = "results_lock" -> "results"
               [] OTHER -> ""

\* C1: during a dispatch phase the phase's TaskGroup keeps its number of
\* tasks: no step taken while the main loop stays in the phase changes
\* |pending| + |assigned| + |completed| of that group.
C1_Conservation ==
    [][(Dispatching /\ Dispatching' /\ phase' = phase)
         => Count(heap', PhaseGroup') = Count(heap, PhaseGroup)]_vars

\* C2: no task id is in more than one of pending, assigned and completed of
\* the same TaskGroup.
C2_Exclusive == Exclusive(heap, map_tasks) /\ Exclusive(heap, reduce_tasks)

\* C3: the busy set and the idle set are disjoint.
C3_BusyIdleDisjoint == followers \cap idle_followers = {}

\* C4: once every node that runs the checker loop has finished a contest round
\* begun after the last membership change, and none is inside a round, exactly
\* one of them is the local naming leader.
C4_SingleLeader ==
    RoundComplete => Cardinality({n \in Contestants : is_local(n)}) = 1

\* C11: when some report was delivered twice and the Master has committed with
\* nothing left to do, the committed results are those of a run in which each
\* task is reported once.
C11_RetrySafe ==
    (repeats > 0 /\ pc_main = "done" /\ Quiescent) => SameResults(dht_final[1])

\* C12: a follower that is lost while it is busy is eventually out of both
\* follower sets, and no task is left in assigned.
C12_LostTaskRecovered ==
    \A f \in Followers :
        (~up[f] /\ f \in followers)
            ~> (/\ f \notin followers
                /\ f \notin idle_followers
                /\ Len(heap[map_tasks.assigned]) = 0
                /\ Len(heap[reduce_tasks.assigned]) = 0)

\* C13: the step that recovers from master/backup leaves both groups with an
\* empty assigned map, every map task and every reduce task that the snapshot
\* had pending or assigned in the pending map of its own group, completed as
\* in the snapshot, no busy follower, the snapshot's followers idle and the
\* snapshot's results.
C13_RecoveryStep ==
    [][(pc_main = "recover" /\ pc_main' = "test" /\ dht_backup # <<>>)
         => LET b == dht_backup[1]
                mt0 == load(b.mt)
                rt0 == load(b.rt)
            IN  /\ heap'[map_tasks'.assigned] = EmptyDict
                /\ heap'[reduce_tasks'.assigned] = EmptyDict
                /\ \A k \in Unfinished(b.heap, mt0) \cap MapTaskIds :
                       Has(heap'[map_tasks'.pending], k)
                /\ \A k \in Unfinished(b.heap, rt0) \cap EmittedKeys :
                       Has(heap'[reduce_tasks'.pending], k)
                /\ heap'[map_tasks'.completed] = b.heap[mt0.completed]
                /\ heap'[reduce_tasks'.completed] = b.heap[rt0.completed]
                /\ followers' = {}
                /\ idle_followers' = b.fol
                /\ results' = b.results]_vars

\* C14: a report_task call whose function blob is neither the map nor the
\* reduce function of the Master ends without changing the TaskGroups, the
\* results, the busy set or the idle set.
C14_UnknownDiscarded ==
    [][\A f \in Followers :
         (/\ handler[f].pc = "followers"
          /\ handler[f].func \notin {map_function, reduce_function}
          /\ handler'[f].pc = "none")
         => UNCHANGED <<heap, map_tasks, reduce_tasks, results, followers,
                        idle_followers>>]_vars

C17_BackToAwaiting == (pc_main = "done") ~> (pc_main = "await")

\* C18: the step of report_task that handles a map report carrying the error
\* sentinel leaves the task in pending and not in completed, and changes
\* neither the reduce group nor the results.
C18_FailedTaskRequeued ==
    [][\A f \in Followers :
         (/\ handler[f].pc = "map_lock"
          /\ handler[f].result = ErrorSentinel
          /\ handler'[f].pc # "map_lock")
         => /\ Has(heap'[map_tasks.pending], handler[f].task_id)
            /\ ~Has(heap'[map_tasks.completed], handler[f].task_id)
            /\ heap'[reduce_tasks.pending] = heap[reduce_tasks.pending]
            /\ results' = results]_vars

\* C5: when a Master that was started after a crash has committed and nothing
\* is left to do (both groups drained, no report outstanding), the committed
\* results are those of the crash-free run.
C5_FailoverResult ==
    (crashes > 0 /\ pc_main = "done" /\ Quiescent) => SameResults(dht_final[1])

\* C6: where the dispatch loop reads the groups (its loop test, the body of
\* _assign_task) and where the backup loop takes its snapshot, no map task is
\* in completed with its output missing from the reduce group.
C6_ReportAtomic ==
    (pc_main \in {"test", "body"} \/ pc_backup = "write")
        => ~HalfReported(heap, map_tasks, reduce_tasks)

\* C7: the write of the final results happens with both TaskGroups drained
\* and with one result for each intermediate key the map phase produced.
C7_CommitComplete ==
    [][(pc_main = "commit" /\ pc_main' = "done")
         => /\ none(heap, map_tasks)
            /\ none(heap, reduce_tasks)
            /\ ~HalfReported(heap, map_tasks, reduce_tasks)
            /\ Len(dht_final'[1]) = Cardinality(EmittedKeys)]_vars

\* C8: every snapshot stored under master/backup holds no completed map task
\* whose output is missing from the reduce group and no completed reduce task
\* whose value is missing from the results.
C8_SnapshotConsistent ==
    dht_backup # <<>> =>
        LET b == dht_backup[1]
        IN  /\ ~HalfReported(b.heap, load(b.mt), load(b.rt))
            /\ ReducedInResults(b.heap, load(b.rt), b.results)

\* C9: a thread that takes a lock holds only locks that come before it in the
\* order followers_lock, map_tasks_lock, reduce_tasks_lock, results_lock.
C9_LockOrder ==
    [][\A t \in Threads : \A l \in LockNames :
          (lock[l] # t /\ lock'[l] = t)
              => \A l2 \in HeldBy(t) : Rank(l2) < Rank(l)]_vars

\* C10: no set of Master threads waits in a circle, each for a lock that
\* another thread of the set holds.
C10_NoDeadlock ==
    ~ \E S \in SUBSET Threads :
         /\ S # {}
         /\ \A t \in S : Wants(t) # "" /\ lock[Wants(t)] \in S


\* The refresh_nameserver call of node n ends with this step, n's daemon having
\* been local and another daemon having been located.
ContestStep(n) ==
    /\ ns_alive[n] /\ ns_alive'[n]
    /\ ns_pc[n] = "decide" /\ ns_pc'[n] = "idle"
    /\ is_local(n)
    /\ ns_new[n] # NoURI /\ ns_new[n] # ns_curr[n]

\* C19 as stated: when a node whose naming daemon is local finds a different
\* daemon, the daemon with the higher id stays; the local daemon is stopped
\* only when its id is lower than the remote's.
C19_HigherIdWins ==
    [][\A n \in Nodes :
          (ContestStep(n) /\ ns_daemon[n] /\ ~ns_daemon'[n])
             => id(ns_curr[n]) < id(ns_new[n])]_vars

\* C19, amended: when a node whose naming daemon is local finds a different
\* daemon, the local daemon is stopped and _uri becomes the remote's URI
\* exactly when the local id is higher than or equal to the remote's;
\* otherwise, the local id being lower, the local daemon and _uri stay as
\* they are.
C19_LowerIdStays ==
    [][\A n \in Nodes :
          ContestStep(n)
             => IF id(ns_curr[n]) >= id(ns_new[n])
                THEN ~ns_daemon'[n] /\ ns_uri'[n] = ns_new[n]
                ELSE ns_daemon'[n] /\ ns_daemon[n] /\ ns_uri'[n] = n]_vars

\* A node has given way to a running daemon of lower id and proxies to it,
\* and that daemon's own node has been through a contest round and kept it.
C19_Witness ==
    \E n, m \in Nodes :
        /\ ns_alive[n] /\ ~ns_daemon[n] /\ ns_round[n] = "done"
        /\ ns_uri[n] = m /\ m # n /\ id(n) > id(m)
        /\ ns_alive[m] /\ ns_daemon[m] /\ is_local(m) /\ ns_round[m] = "done"

\* C20: when a naming daemon loses a contest, every binding of its registry is
\* bound at the winner after the step (the winner's own binding for a name is
\* kept, the loser's is taken otherwise), and the loser's _uri is the
\* winner's URI. Stated for a winner whose node has not been stopped or lost.
C20_RegistryForwarded ==
    [][\A n \in Nodes :
          (ContestStep(n) /\ ns_daemon[n] /\ ~ns_daemon'[n] /\ ns_alive[ns_new[n]])
             => LET w == ns_new[n]
                IN  /\ ns_uri'[n] = w
                    /\ \A k \in Names :
                          ns_reg[n][k] # NoAddr
                             => ns_reg'[w][k] = Forwarded(ns_reg[n], ns_reg[w])[k]]_vars

\* The keys of dict d that dict e does not have.
KeysGone(d, e) == {k \in DictKeys(d) : ~Has(e, k)}

\* C21: a successful _assign_task moves exactly one task from pending to
\* assigned of the phase's TaskGroup and exactly one follower from the idle
\* set to the busy set, and calls do on that follower with that task; a call
\* that dispatches nothing leaves the heap of both TaskGroups and both
\* follower sets as they were.
C21_DispatchStep ==
    [][/\ (pc_main = "body" /\ pc_main' = "do")
            => LET tg == PhaseGroup
                   moved == KeysGone(heap[tg.pending], heap'[tg.pending])
               IN  /\ Cardinality(moved) = 1
                   /\ KeysGone(heap'[tg.assigned], heap[tg.assigned]) = moved
                   /\ Len(heap'[tg.pending]) = Len(heap[tg.pending]) - 1
                   /\ Len(heap'[tg.assigned]) = Len(heap[tg.assigned]) + 1
                   /\ heap'[tg.completed] = heap[tg.completed]
                   /\ worker' \in idle_followers /\ worker' \notin followers
                   /\ idle_followers' = idle_followers \ {worker'}
                   /\ followers' = followers \cup {worker'}
                   /\ jobs'[worker'] # <<>>
                   /\ LET j == jobs'[worker'][Len(jobs'[worker'])]
                      IN  j.task_id \in moved /\ j.func = PhaseFunction
       /\ (pc_main = "body" /\ pc_main' = "test")
            => UNCHANGED <<heap, map_tasks, reduce_tasks, followers,
                           idle_followers>>]_vars

\* The do call of _assign_task raises and the exception ends _master_loop.
DoRaises == pc_main = "do" /\ pc_main' = "dead"

\* _assign_task finds the follower it popped unreachable.
PicksUnreachable ==
    /\ pc_main = "body" /\ pc_main' = "test"
    /\ \E w \in idle_followers : ~up[w] /\ idle_followers' = idle_followers \ {w}

\* C22: when the chosen follower is unreachable or the do call to it fails,
\* the task is in pending and not in assigned, the follower is in neither the
\* busy nor the idle set, and the dispatch loop keeps running.
C22_DispatchFailure ==
    [][/\ PicksUnreachable
            => /\ heap' = heap
               /\ \A w \in idle_followers \ idle_followers' :
                     w \notin followers' /\ w \notin idle_followers'
               /\ pc_main' = "test"
       /\ DoRaises
            => LET tg == PhaseGroup
               IN  /\ Len(heap'[tg.assigned]) = 0
                   /\ Len(heap'[tg.pending]) > 0
                   /\ worker \notin followers' /\ worker \notin idle_followers'
                   /\ pc_main' = "test"]_vars

\* The result of a map report is a list of (k, v) pairs.
IsPairList(result) ==
    /\ Len(result) > 0
    /\ \A i \in 1..Len(result) : Len(result[i]) = 2

\* The values dict d lists under key k.
ValuesOf(d, k) == IF Has(d, k) THEN Get(d, k) ELSE <<>>

\* C23: on a map report whose result is a list of (k, v) pairs, for every pair
\* of the list v is appended to reduce_tasks.pending[k]: when the report has
\* been handled, the dict lists under k each v as often as before plus the
\* number of times (k, v) is in the result.
C23_Shuffle ==
    [][\A f \in Followers :
          (handler[f].pc = "shuffle" /\ handler'[f].pc = "none"
             /\ IsPairList(handler[f].result))
             => \A i \in 1..Len(handler[f].result) :
                   LET kv == handler[f].result[i]
                   IN  Occurrences(ValuesOf(heap'[reduce_tasks.pending], kv[1]), kv[2])
                         = Occurrences(ValuesOf(heap[reduce_tasks.pending], kv[1]), kv[2])
                           + Occurrences(handler[f].result, kv)]_vars

\* C24: on a reduce report for task id key, the task moves from the reduce
\* group's pending or assigned to completed and the pair (key, result) is
\* appended to the final results.
C24_ReduceReport ==
    [][\A f \in Followers :
          (handler[f].pc = "results_lock" /\ handler'[f].pc = "none"
             /\ handler[f].func = reduce_function)
             => LET key == handler[f].task_id
                IN  /\ Has(heap'[reduce_tasks.completed], key)
                    /\ ~Has(heap'[reduce_tasks.pending], key)
                    /\ ~Has(heap'[reduce_tasks.assigned], key)
                    /\ results' = Append(results, <<key, handler[f].result>>)]_vars

\* C25: when master/backup is absent, after the initialisation
\* map_tasks.pending holds the staged chunks (each of at most ITEMS_PER_CHUNK
\* records, keyed by chunk id), map_tasks.assigned and map_tasks.completed
\* are empty, the three dicts of reduce_tasks are empty and results is empty,
\* whatever the Master object held before.
C25_FreshStart ==
    [][(pc_main = "recover" /\ pc_main' = "test" /\ dht_backup = <<>>)
         => /\ heap'[map_tasks'.pending] = dht_data
            /\ \A i \in 1..Len(dht_data) : Len(dht_data[i][2]) <= ITEMS_PER_CHUNK
            /\ heap'[map_tasks'.assigned] = EmptyDict
            /\ heap'[map_tasks'.completed] = EmptyDict
            /\ heap'[reduce_tasks'.pending] = EmptyDict
            /\ heap'[reduce_tasks'.assigned] = EmptyDict
            /\ heap'[reduce_tasks'.completed] = EmptyDict
            /\ results' = <<>>]_vars

\* Thread t is inside a remote call: the main thread between the call of
\* worker.do and its return (the report_task handlers make no remote call,
\* and the DHT operations of _master_loop are steps of their own).
InRemoteCall(t) == t = MainThread /\ pc_main = "do"

\* C26: apart from the backup loop's snapshot write, no Master thread holds
\* any of followers_lock, map_tasks_lock, reduce_tasks_lock, results_lock
\* while it performs a remote call.
C26_NoLockAcrossCall ==
    \A t \in Threads \ {BackupThread} : InRemoteCall(t) => HeldBy(t) = {}

\* The refresh_nameserver call of node n ends with this step, n having been a
\* proxy to a remote daemon.
ProxyStep(n) ==
    /\ ns_alive[n] /\ ns_alive'[n]
    /\ ns_pc[n] = "decide" /\ ns_pc'[n] = "idle"
    /\ ns_uri[n] # n

\* C27: a node that proxies to a remote naming daemon starts a local daemon
\* exactly when that remote does not answer and discovery found no daemon;
\* while the remote answers it starts none, and when the remote does not
\* answer but a daemon was found it rebinds to that one and starts none.
\* And: when no naming daemon runs while some node's checker loop does, a
\* daemon eventually runs again (or no checker loop is left).
C27_SelfPromotion ==
    /\ [][\A n \in Nodes :
            ProxyStep(n)
               => IF ns_curr[n] \in RunningDaemons
                  THEN ns_daemon'[n] = ns_daemon[n] /\ ns_uri'[n] = ns_uri[n]
                  ELSE IF ns_new[n] # NoURI
                  THEN ns_daemon'[n] = ns_daemon[n] /\ ns_uri'[n] = ns_new[n]
                  ELSE ns_daemon'[n] /\ ns_uri'[n] = n]_vars
    /\ (RunningDaemons = {} /\ Contestants # {})
          ~> (RunningDaemons # {} \/ Contestants = {})

\* A proxying node has found its remote silent and no other daemon: no daemon
\* runs, and the promotion is the step its loop takes next.
C27_Witness ==
    \E n \in Nodes :
        /\ ns_alive[n] /\ ns_pc[n] = "decide" /\ ns_uri[n] # n /\ ~ns_daemon[n]
        /\ ns_curr[n] \notin RunningDaemons /\ ns_new[n] = NoURI
        /\ RunningDaemons = {}

\* C28: no reduce task is dispatched while a map task is pending or assigned,
\* and no value for key k is added to the reduce group after reduce task k has
\* been dispatched (k is then in assigned or completed of the reduce group).
C28_PhaseOrder ==
    [][/\ (pc_main = "body" /\ pc_main' = "do" /\ PhaseFunction = reduce_function)
            => Unfinished(heap, map_tasks) \cap MapTaskIds = {}
       /\ \A f \in Followers :
            (handler[f].pc = "shuffle" /\ handler'[f].pc = "none"
               /\ Unpacks(handler[f].result))
               => LET k == handler[f].result[1]
                  IN  /\ ~Has(heap[reduce_tasks.assigned], k)
                      /\ ~Has(heap[reduce_tasks.completed], k)]_vars

\* The three dicts of TaskGroup tg are the same in heap h and heap g.
SameGroup(h, g, tg) ==
    /\ h[tg.pending] = g[tg.pending]
    /\ h[tg.assigned] = g[tg.assigned]
    /\ h[tg.completed] = g[tg.completed]

\* C29: the map TaskGroup and the reduce TaskGroup share no state: dispatching
\* or completing a task of one group leaves pending, assigned and completed
\* of the other group as they were.
C29_GroupsApart ==
    [][/\ (pc_main = "body" /\ pc_main' = "do" /\ phase = "map")
            => SameGroup(heap', heap, reduce_tasks)
       /\ (pc_main = "body" /\ pc_main' = "do" /\ phase = "reduce")
            => SameGroup(heap', heap, map_tasks)
       /\ \A f \in Followers :
            /\ (handler[f].pc = "map_lock" /\ handler'[f].pc = "shuffle")
                 => SameGroup(heap', heap, reduce_tasks)
            /\ (handler[f].pc = "results_lock" /\ handler'[f].pc = "none")
                 => SameGroup(heap', heap, map_tasks)]_vars

\* C30: no follower is lost by the dispatcher: a follower that is in the busy
\* set or the idle set and stays reachable is in one of the two sets after
\* every step of the Master.
C30_NoFollowerLost ==
    [][\A f \in Followers :
          (up[f] /\ up'[f] /\ f \in followers \cup idle_followers)
             => f \in followers' \cup idle_followers']_vars

\* C31: once a job is staged and a reachable follower is subscribed (it is in
\* the busy or the idle set), the Master eventually writes
\* map-reduce/final-results.
C31_JobCompletes ==
    (staged /\ \E f \in Followers : up[f] /\ f \in followers \cup idle_followers)
       ~> (dht_final # <<>>)

\* C32: on every node that has been started and whose machine is up, is_local
\* is true exactly when the node's own naming daemon runs, also after a lost
\* contest, a self-promotion and stop().
C32_LocalIffDaemon ==
    \A n \in Nodes :
        (ns_up[n] /\ ns_uri[n] # NoURI) => (is_local(n) <=> ns_daemon[n])

====
